---- MODULE Spec2Model ----
(***************************************************************************)
(* Procurement spend analysis: the supplier allocation optimizer           *)
(* (optimization_engine.py), the constrained optimizer                     *)
(* (constrained_optimization.py) and the Monte Carlo simulator             *)
(* (monte_carlo.py).                                                       *)
(*                                                                         *)
(* Floats are modelled as exact rationals <<numerator, denominator>> in    *)
(* lowest terms with a positive denominator; <<0, 0>> is NaN.  Rounding    *)
(* error of the floating point arithmetic is not modelled, so "equal       *)
(* within 1e-6" of the code is "equal" here.                               *)
(***************************************************************************)
EXTENDS Integers, Sequences, FiniteSets, TLC

VARIABLES
    supplier_metrics,     \* rows of the metrics query, in the order returned
    call,                 \* the most recent call: function name and arguments
    recommendations_df,   \* the rows that call returned
    summary,              \* the summary that call returned
    raised,               \* the exception that call raised, "none" when it returned
    rng,                  \* state of numpy's process-wide generator (np.random)
    draws,                \* the draws of the most recent Monte Carlo call
    earlier,              \* a Monte Carlo call and its result, kept by the caller
    threads               \* the concurrent invocations of run_monte_carlo_analysis

vars == <<supplier_metrics, call, recommendations_df, summary, raised,
          rng, draws, earlier, threads>>

\* What the optimizers neither read nor write.
monte_carlo_state == <<rng, draws, earlier, threads>>

\* `call` before any call.
NoCall == [fn |-> "none"]

\* ------------------------------------------------------------------ bounds

\* Rows of the metrics query, of which at most MaxRowsOther are of the second
\* category: the optimizers treat every category alike and only add up the
\* categories' results.
MaxRows == 3
MaxRowsOther == 1

\* ... or at most MaxRowsEach rows of each category, where the categories'
\* results are compared with one another.
MaxRowsEach == 2
MaxSuppliersPerCategory == 3

\* The purchase_orders table has at most MaxOrders rows and the
\* quality_incidents table at most MaxIncidents.
MaxOrders == 2
MaxIncidents == 2

\* num_simulations is at most MaxSims.
MaxSims == 3

\* The tests and the pipeline simulate with hundreds of draws: ManySims of them.
ManySims == 100

\* ... and at most MaxConcurrentSims when two invocations run concurrently.
MaxConcurrentSims == 2

\* The generator has RngModulus states.
RngModulus == 8

\* A scenario mapping has at most MaxScenarios scenarios.
MaxScenarios == 3

\* ------------------------------------------------------------ float values

NaN == <<0, 0>>

IsNaN(x) == x[2] = 0

Abs(n) == IF n < 0 THEN -n ELSE n

RECURSIVE GCD(_, _)
GCD(a, b) == IF b = 0 THEN a ELSE GCD(b, a % b)

Norm(n, d) ==
    IF d = 0 THEN NaN
    ELSE LET g == GCD(Abs(n), Abs(d))
             s == IF d < 0 THEN -1 ELSE 1
         IN  <<(s * n) \div g, (s * d) \div g>>

R(n) == <<n, 1>>

Pct(n) == Norm(n, 100)

RAdd(a, b) == IF IsNaN(a) \/ IsNaN(b) THEN NaN ELSE Norm(a[1] * b[2] + b[1] * a[2], a[2] * b[2])

RSub(a, b) == IF IsNaN(a) \/ IsNaN(b) THEN NaN ELSE Norm(a[1] * b[2] - b[1] * a[2], a[2] * b[2])

RMul(a, b) == IF IsNaN(a) \/ IsNaN(b) THEN NaN ELSE Norm(a[1] * b[1], a[2] * b[2])

\* x / 0 is inf or nan in numpy: both are the non-finite value NaN here.
RDiv(a, b) == IF IsNaN(a) \/ IsNaN(b) \/ b[1] = 0 THEN NaN ELSE Norm(a[1] * b[2], a[2] * b[1])

\* Every comparison with NaN is false.
RLt(a, b) == ~IsNaN(a) /\ ~IsNaN(b) /\ a[1] * b[2] < b[1] * a[2]

RLe(a, b) == ~IsNaN(a) /\ ~IsNaN(b) /\ a[1] * b[2] <= b[1] * a[2]

REq(a, b) == ~IsNaN(a) /\ ~IsNaN(b) /\ a[1] * b[2] = b[1] * a[2]

\* Python's max(a, b): b only when b > a, so max(0.0, nan) is 0.0.
PyMax(a, b) == IF RLt(a, b) THEN b ELSE a

PyMin(a, b) == IF RLt(b, a) THEN b ELSE a

\* ------------------------------------------------- sequences of floats

\* The sum of the first half and of the rest.
RECURSIVE SeqSum(_)
SeqSum(s) ==
    IF s = <<>> THEN R(0)
    ELSE IF Len(s) = 1 THEN RAdd(R(0), s[1])
    ELSE RAdd(SeqSum(SubSeq(s, 1, Len(s) \div 2)),
              SeqSum(SubSeq(s, Len(s) \div 2 + 1, Len(s))))

DropNaN(s) == SelectSeq(s, LAMBDA x : ~IsNaN(x))

\* pandas Series.sum(): NaN entries are skipped.
PandasSum(s) == SeqSum(DropNaN(s))

RECURSIVE SeqMin(_)
SeqMin(s) ==
    IF Len(s) = 1 THEN Head(s)
    ELSE LET m == SeqMin(Tail(s)) IN IF RLt(m, Head(s)) THEN m ELSE Head(s)

RECURSIVE SeqMax(_)
SeqMax(s) ==
    IF Len(s) = 1 THEN Head(s)
    ELSE LET m == SeqMax(Tail(s)) IN IF RLt(Head(s), m) THEN m ELSE Head(s)

\* pandas Series.min() / .max(): NaN entries are skipped, NaN when none is left.
PandasMin(s) == IF DropNaN(s) = <<>> THEN NaN ELSE SeqMin(DropNaN(s))

PandasMax(s) == IF DropNaN(s) = <<>> THEN NaN ELSE SeqMax(DropNaN(s))

\* --------------------------------------------------- the metrics source

Categories == <<"A", "B">>

\* Supplier master and delivery / quality history of each supplier.
\* Supplier 3 has no delivered order (its on-time percentage is NULL) and
\* supplier 4 has a risk level outside Low / Medium / High.
Suppliers ==
    { [supplier_id |-> 1, risk_level |-> "Low", on_time_delivery_pct |-> R(100),
       quality_incident_count |-> 0, quality_cost_ngn |-> 0, total_quantity |-> 2],
      [supplier_id |-> 2, risk_level |-> "Medium", on_time_delivery_pct |-> R(80),
       quality_incident_count |-> 2, quality_cost_ngn |-> 150, total_quantity |-> 1],
      [supplier_id |-> 3, risk_level |-> "High", on_time_delivery_pct |-> NaN,
       quality_incident_count |-> 0, quality_cost_ngn |-> 0, total_quantity |-> 1],
      [supplier_id |-> 4, risk_level |-> "Critical", on_time_delivery_pct |-> R(100),
       quality_incident_count |-> 1, quality_cost_ngn |-> 50, total_quantity |-> 3] }

UnitCosts == {10, 13}

\* One row of the metrics query: GROUP BY category, supplier (a supplier id has
\* several rows when its orders carry several supplier names), with
\* avg_unit_cost_ngn = total_spend_ngn / total_quantity and total_quantity > 0.
MetricRow(cat, s, cost) ==
    [supplier_id |-> s.supplier_id,
     risk_level |-> s.risk_level,
     on_time_delivery_pct |-> s.on_time_delivery_pct,
     quality_incident_count |-> s.quality_incident_count,
     quality_cost_ngn |-> s.quality_cost_ngn,
     total_quantity |-> s.total_quantity,
     category |-> cat,
     total_spend_ngn |-> s.total_quantity * cost,
     avg_unit_cost_ngn |-> cost]

MetricRows(cat) == { MetricRow(cat, s, cost) : s \in Suppliers, cost \in UnitCosts }

Frames(cat, n) == UNION { [1..k -> MetricRows(cat)] : k \in 0..n }

\* The tables the metrics query can return; the groups come ordered by category.
MetricTables ==
    { t \in { a \o b : a \in Frames(Categories[1], MaxRows), b \in Frames(Categories[2], MaxRowsOther) } :
        Len(t) <= MaxRows }

GroupOf(rows, cat) == SelectSeq(rows, LAMBDA r : r.category = cat)

\* supplier_metrics.groupby("category"): the categories present, in sorted order.
GroupKeys(rows) == SelectSeq(Categories, LAMBDA cat : GroupOf(rows, cat) # <<>>)

RECURSIVE IntSum(_)
IntSum(s) == IF s = <<>> THEN 0 ELSE Head(s) + IntSum(Tail(s))

\* The category_history query: quantity and spend of a category's orders.
CategoryHistory(rows, cat) ==
    LET g == GroupOf(rows, cat)
    IN  [category |-> cat,
         category_quantity |-> IntSum([i \in 1..Len(g) |-> g[i].total_quantity]),
         category_spend_ngn |-> IntSum([i \in 1..Len(g) |-> g[i].total_spend_ngn])]

\* pd.concat of frames; also the rows of a nested loop, in order.
RECURSIVE ConcatAll(_)
ConcatAll(ss) == IF ss = <<>> THEN <<>> ELSE Head(ss) \o ConcatAll(Tail(ss))

\* The purchase_orders tables: row i has po_number i.
PurchaseOrders ==
    UNION { { [i \in 1..n |-> [supplier_id |-> f[i].supplier_id, category |-> f[i].category,
                               po_number |-> i, quantity |-> f[i].quantity,
                               total_amount_ngn |-> f[i].total_amount_ngn]] :
              f \in [1..n -> [category : { Categories[k] : k \in 1..Len(Categories) },
                              supplier_id : 1..2, quantity : 0..2,
                              total_amount_ngn : {10, 20}]] } : n \in 0..MaxOrders }

\* The quality_incidents tables: every incident is linked to one po_number.
QualityIncidents ==
    UNION { { [j \in 1..n |-> [po_number |-> f[j], incident_id |-> j]] :
              f \in [1..n -> 1..MaxOrders] } : n \in 0..MaxIncidents }

\* FROM purchase_orders po LEFT JOIN quality_incidents qi ON po.po_number =
\* qi.po_number: one row for every pair of an order and an incident linked to
\* it, and one row with a NULL incident for an order without incidents.  (The
\* inner join with suppliers keeps every order of a known supplier once.)
LeftJoin(purchase_orders, quality_incidents) ==
    ConcatAll([i \in 1..Len(purchase_orders) |->
        LET linked == SelectSeq(quality_incidents,
                                LAMBDA qi : qi.po_number = purchase_orders[i].po_number)
        IN  IF linked = <<>> THEN << [qi |-> [none |-> TRUE], po |-> purchase_orders[i]] >>
            ELSE [j \in 1..Len(linked) |-> [qi |-> linked[j], po |-> purchase_orders[i]]]])

\* The supplier_metrics query of both optimizers, its columns total_quantity
\* and total_spend_ngn: GROUP BY category and supplier, SUM over the joined
\* rows of the group, HAVING total_quantity > 0.  SQLite emits the groups in
\* the order of their keys.
SupplierMetricsQuery(purchase_orders, quality_incidents) ==
    LET joined == LeftJoin(purchase_orders, quality_incidents)
        Group(cat, s) ==
            SelectSeq(joined, LAMBDA row : row.po.category = cat /\ row.po.supplier_id = s)
        Aggregate(cat, s) ==
            LET group == Group(cat, s)
            IN  IF group = <<>> THEN <<>>
                ELSE LET total_quantity == IntSum([k \in 1..Len(group) |-> group[k].po.quantity])
                     IN  IF total_quantity > 0
                         THEN << [supplier_id |-> s, total_quantity |-> total_quantity,
                                  category |-> cat,
                                  total_spend_ngn |->
                                      IntSum([k \in 1..Len(group) |-> group[k].po.total_amount_ngn])] >>
                         ELSE <<>>
    IN  ConcatAll([c \in 1..Len(Categories) |->
            ConcatAll([s \in 1..2 |-> Aggregate(Categories[c], s)])])

\* pd.read_sql of the supplier_metrics query.
read_sql(purchase_orders, quality_incidents) ==
    /\ call = NoCall
    /\ call' = [fn |-> "read_sql", purchase_orders |-> purchase_orders,
                quality_incidents |-> quality_incidents]
    /\ supplier_metrics' = SupplierMetricsQuery(purchase_orders, quality_incidents)
    /\ UNCHANGED <<recommendations_df, summary, raised, monte_carlo_state>>

\* ------------------------------------------ optimization_engine.py

RISK_SCORES(level) ==
    CASE level = "Low" -> R(1)
      [] level = "Medium" -> Pct(60)
      [] level = "High" -> Pct(20)
      [] OTHER -> NaN

\* group["risk_level"].map(RISK_SCORES).fillna(0.4)
RiskScore(level) == IF IsNaN(RISK_SCORES(level)) THEN Pct(40) ELSE RISK_SCORES(level)

_minmax(series, higher_is_better) ==
    LET min_val == PandasMin(series)
        max_val == PandasMax(series)
    IN  IF IsNaN(min_val) \/ IsNaN(max_val) \/ REq(max_val, min_val)
        THEN [i \in 1..Len(series) |-> R(1)]
        ELSE [i \in 1..Len(series) |->
                LET scaled == RDiv(RSub(series[i], min_val), RSub(max_val, min_val))
                IN  IF higher_is_better THEN scaled ELSE RSub(R(1), scaled)]

_allocate_shares(scores, min_share) ==
    IF Len(scores) = 0 THEN <<>>
    ELSE LET total == PandasSum(scores)
             base == IF RLt(R(0), total)
                     THEN [i \in 1..Len(scores) |-> RDiv(scores[i], total)]
                     ELSE [i \in 1..Len(scores) |-> Norm(1, Len(scores))]
             \* Series.clip(lower=min_share) leaves NaN as it is
             adjusted == [i \in 1..Len(scores) |->
                            IF IsNaN(base[i]) THEN NaN ELSE PyMax(min_share, base[i])]
         IN  [i \in 1..Len(scores) |-> RDiv(adjusted[i], PandasSum(adjusted))]

\* The four score columns of one category's frame.
NormalizedScores(group) ==
    [cost_score |-> _minmax([i \in 1..Len(group) |-> R(group[i].avg_unit_cost_ngn)], FALSE),
     delivery_score |-> _minmax([i \in 1..Len(group) |-> group[i].on_time_delivery_pct], TRUE),
     quality_score |-> _minmax([i \in 1..Len(group) |-> R(group[i].quality_cost_ngn)], FALSE),
     risk_score |-> [i \in 1..Len(group) |-> RiskScore(group[i].risk_level)]]

\* The composite score of every row of one category's frame.
CompositeScores(group, score_weights) ==
    LET columns == NormalizedScores(group)
    IN  [i \in 1..Len(columns.cost_score) |->
            RAdd(RAdd(RAdd(RMul(score_weights.unit_cost, columns.cost_score[i]),
                           RMul(score_weights.delivery, columns.delivery_score[i])),
                      RMul(score_weights.quality, columns.quality_score[i])),
                 RMul(score_weights.risk, columns.risk_score[i]))]

\* The orders in which sort_values can put rows with the given sort keys: the
\* keys ascend or descend and the rows with a NaN key come last, in their
\* original order.  The default sort (kind="quicksort") is not a stable one, so
\* rows with equal keys come in any order.
SortOrders(sort_keys, ascending) ==
    UNION { { p \in [1..Len(keys) -> 1..Len(keys)] :
                \A a, b \in 1..Len(keys) :
                    a < b =>
                        /\ p[a] # p[b]
                        /\ IsNaN(keys[p[a]]) => IsNaN(keys[p[b]]) /\ p[a] < p[b]
                        /\ ~IsNaN(keys[p[a]]) /\ ~IsNaN(keys[p[b]]) =>
                              IF ascending THEN ~RLt(keys[p[b]], keys[p[a]])
                              ELSE ~RLt(keys[p[a]], keys[p[b]]) } :
            keys \in { sort_keys } }

Min2(a, b) == IF a < b THEN a ELSE b

\* group.sort_values("composite_score", ascending=False).head(n): the row
\* indices it can select, in order.
SelectedOrders(scores, n) ==
    { SubSeq(order, 1, Min2(n, Len(order))) : order \in SortOrders(scores, FALSE) }

\* The loop body of run_supplier_optimization for one category: the frames
\* `selected` can be, one for every selection of the sort.
OptimizeCategory(rows, cat, max_suppliers_per_category, min_supplier_share, score_weights) ==
    LET group == GroupOf(rows, cat)
        scores == CompositeScores(group, score_weights)
        history_row == CategoryHistory(rows, cat)
    IN  { LET selected_scores == [k \in 1..Len(order) |-> scores[order[k]]]
              shares == _allocate_shares(selected_scores, min_supplier_share)
          IN  [k \in 1..Len(order) |->
                  LET row == group[order[k]]
                      projected_quantity == RMul(shares[k], R(history_row.category_quantity))
                  IN  [supplier_id |-> row.supplier_id,
                       category |-> cat,
                       avg_unit_cost_ngn |-> row.avg_unit_cost_ngn,
                       projected_quantity |-> projected_quantity,
                       composite_score |-> selected_scores[k],
                       recommended_share |-> shares[k],
                       projected_spend_ngn |-> RMul(projected_quantity, R(row.avg_unit_cost_ngn)),
                       historical_category_spend_ngn |-> history_row.category_spend_ngn]] :
          order \in SelectedOrders(scores, max_suppliers_per_category) }

\* The frames pd.concat(recommendations) can be: one frame of every category.
OptimizationRows(rows, max_suppliers_per_category, min_supplier_share, score_weights) ==
    LET keys == GroupKeys(rows)
    IN  UNION {
          { ConcatAll(pick) :
            pick \in { f \in [1..Len(keys) -> UNION { selected[k] : k \in 1..Len(keys) }] :
                         \A k \in 1..Len(keys) : f[k] \in selected[k] } } :
          selected \in { [k \in 1..Len(keys) |->
                            OptimizeCategory(rows, keys[k], max_suppliers_per_category,
                                             min_supplier_share, score_weights)] } }

\* savings = max(0.0, historical_spend - optimized_spend)
OptimizationSavings(historical_spend, optimized_spend) ==
    PyMax(R(0), RSub(historical_spend, optimized_spend))

OptimizationSummary(rows, recs) ==
    LET keys == GroupKeys(rows)
        \* groupby("category")["projected_spend_ngn"].sum() skips NaN
        optimized_category_spend(cat) ==
            LET mine == SelectSeq(recs, LAMBDA r : r.category = cat)
            IN  PandasSum([i \in 1..Len(mine) |-> mine[i].projected_spend_ngn])
        historical_spend == SeqSum([k \in 1..Len(keys) |-> R(CategoryHistory(rows, keys[k]).category_spend_ngn)])
        optimized_spend == SeqSum([k \in 1..Len(keys) |-> optimized_category_spend(keys[k])])
        savings == OptimizationSavings(historical_spend, optimized_spend)
    IN  [historical_spend_ngn |-> historical_spend,
         optimized_spend_ngn |-> optimized_spend,
         optimization_savings_ngn |-> savings,
         optimization_savings_pct |->
            IF RLt(R(0), historical_spend)
            THEN RMul(RDiv(savings, historical_spend), R(100)) ELSE R(0)]

OptimizationEmptySummary ==
    [historical_spend_ngn |-> R(0), optimized_spend_ngn |-> R(0),
     optimization_savings_ngn |-> R(0), optimization_savings_pct |-> R(0)]

MinSupplierShares == {R(0), Pct(15), Pct(40)}

ScoreWeights ==
    { [unit_cost |-> Pct(45), delivery |-> Pct(30), quality |-> Pct(15), risk |-> Pct(10)],
      [unit_cost |-> R(0), delivery |-> R(0), quality |-> R(0), risk |-> R(0)],
      [unit_cost |-> R(0), delivery |-> R(1), quality |-> R(0), risk |-> R(0)],
      [unit_cost |-> R(0), delivery |-> R(0), quality |-> R(1), risk |-> R(2)] }

run_supplier_optimization(max_suppliers_per_category, min_supplier_share, score_weights) ==
    /\ call = NoCall
    /\ \E recs \in ( IF supplier_metrics = <<>> THEN { <<>> }
                     ELSE OptimizationRows(supplier_metrics, max_suppliers_per_category,
                                           min_supplier_share, score_weights) ) :
           /\ call' = [fn |-> "run_supplier_optimization",
                       score_weights |-> score_weights,
                       max_suppliers_per_category |-> max_suppliers_per_category,
                       min_supplier_share |-> min_supplier_share]
           /\ recommendations_df' = recs
           /\ summary' = IF supplier_metrics = <<>> THEN OptimizationEmptySummary
                         ELSE OptimizationSummary(supplier_metrics, recs)
           /\ raised' = "none"
    /\ UNCHANGED <<supplier_metrics, monte_carlo_state>>

\* --------------------------------------- constrained_optimization.py

risk_level_order(level) ==
    CASE level = "Low" -> 0
      [] level = "Medium" -> 1
      [] level = "High" -> 2
      [] OTHER -> 3

\* Variant: the risk cap is not applied.
PassesGates_NoRiskCap(row, constraints) ==
    /\ RLe(constraints.min_on_time_delivery_pct, row.on_time_delivery_pct)
    /\ row.quality_incident_count <= constraints.max_quality_incidents_per_order

\* The three eligibility gates of one row.
PassesGates(row, constraints) ==
    /\ RLe(constraints.min_on_time_delivery_pct, row.on_time_delivery_pct)
    /\ row.quality_incident_count <= constraints.max_quality_incidents_per_order
    /\ risk_level_order(row.risk_level) <= risk_level_order(constraints.max_risk_level)

\* frame.nsmallest(1, "avg_unit_cost_ngn"): the first of the cheapest rows.
NSmallest1(frame) ==
    IF frame = <<>> THEN <<>>
    ELSE LET i == CHOOSE i \in 1..Len(frame) :
                    \A j \in 1..Len(frame) :
                        \/ frame[i].avg_unit_cost_ngn < frame[j].avg_unit_cost_ngn
                        \/ (frame[i].avg_unit_cost_ngn = frame[j].avg_unit_cost_ngn /\ i <= j)
         IN  <<frame[i]>>

\* Variant: no fallback to the cheapest supplier when the gates reject all.
Eligible_NoFallback(group, constraints) ==
    SelectSeq(group, LAMBDA row : PassesGates(row, constraints))

Eligible(group, constraints) ==
    LET eligible == SelectSeq(group, LAMBDA row : PassesGates(row, constraints))
    IN  IF eligible = <<>> THEN NSmallest1(group) ELSE eligible

\* Variant: the percentile itself scales the range.
PriceThreshold_PctOfRange(eligible, min_price_pct) ==
    LET prices == [i \in 1..Len(eligible) |-> R(eligible[i].avg_unit_cost_ngn)]
        min_price == PandasMin(prices)
        max_price == PandasMax(prices)
        price_range == IF RLt(min_price, max_price) THEN RSub(max_price, min_price) ELSE R(1)
    IN  RSub(max_price, RMul(min_price_pct, price_range))

PriceThreshold(eligible, min_price_pct) ==
    LET prices == [i \in 1..Len(eligible) |-> R(eligible[i].avg_unit_cost_ngn)]
        min_price == PandasMin(prices)
        max_price == PandasMax(prices)
        price_range == IF RLt(min_price, max_price) THEN RSub(max_price, min_price) ELSE R(1)
    IN  RSub(max_price, RMul(RSub(R(1), min_price_pct), price_range))

\* Variant: the filter keeps the rows at or above the threshold.
PriceQualified_AtOrAbove(eligible, min_price_pct) ==
    LET price_threshold == PriceThreshold(eligible, min_price_pct)
        price_qualified == SelectSeq(eligible,
                               LAMBDA row : RLe(price_threshold, R(row.avg_unit_cost_ngn)))
    IN  IF price_qualified = <<>> THEN NSmallest1(eligible) ELSE price_qualified

PriceQualified(eligible, min_price_pct) ==
    LET price_threshold == PriceThreshold(eligible, min_price_pct)
        price_qualified == SelectSeq(eligible,
                               LAMBDA row : RLe(R(row.avg_unit_cost_ngn), price_threshold))
    IN  IF price_qualified = <<>> THEN NSmallest1(eligible) ELSE price_qualified

\* Variant: dual-sourcing from the threshold on, not only above it.
EnforceDualSource_AtThreshold(category_spend, min_dual_source_threshold, price_qualified) ==
    category_spend >= min_dual_source_threshold /\ Len(price_qualified) > 1

EnforceDualSource(category_spend, min_dual_source_threshold, price_qualified) ==
    category_spend > min_dual_source_threshold /\ Len(price_qualified) > 1

\* Variant: the primary gets the whole configured cap.
PrimaryShare_CapOnly(max_single_share) == max_single_share

PrimaryShare(max_single_share) == PyMin(Pct(65), max_single_share)

ConstrainedRec(supp, cat, share_val, category_qty, category_spend, dual_sourced) ==
    LET projected_quantity == RMul(share_val, R(category_qty))
    IN  [supplier_id |-> supp.supplier_id,
         risk_level |-> supp.risk_level,
         on_time_delivery_pct |-> supp.on_time_delivery_pct,
         quality_incident_count |-> supp.quality_incident_count,
         category |-> cat,
         avg_unit_cost_ngn |-> supp.avg_unit_cost_ngn,
         projected_quantity |-> projected_quantity,
         projected_spend_ngn |-> RMul(projected_quantity, R(supp.avg_unit_cost_ngn)),
         historical_category_spend_ngn |-> category_spend,
         dual_sourced |-> dual_sourced,
         constrained_share |-> share_val]

\* The loop body of run_constrained_optimization for one category.
ConstrainCategory(rows, cat, constraints) ==
    LET group == GroupOf(rows, cat)
        eligible == Eligible(group, constraints)
        price_qualified == PriceQualified(eligible, constraints.min_price_percentile)
        history_row == CategoryHistory(rows, cat)
        category_spend == history_row.category_spend_ngn
        category_qty == history_row.category_quantity
        primary == NSmallest1(price_qualified)[1]
        primary_share == PrimaryShare(constraints.max_single_supplier_share)
        secondary_candidates ==
            SelectSeq(price_qualified, LAMBDA row : row.supplier_id # primary.supplier_id)
    IN  IF eligible = <<>> THEN <<>>
        ELSE IF EnforceDualSource(category_spend, constraints.min_dual_source_threshold, price_qualified)
                /\ secondary_candidates # <<>>
        THEN << ConstrainedRec(primary, cat, primary_share, category_qty, category_spend, 1),
                ConstrainedRec(NSmallest1(secondary_candidates)[1], cat,
                               RSub(R(1), primary_share), category_qty, category_spend, 1) >>
        ELSE << ConstrainedRec(primary, cat, R(1), category_qty, category_spend, 0) >>

ConstrainedRows(rows, constraints) ==
    LET keys == GroupKeys(rows)
    IN  ConcatAll([k \in 1..Len(keys) |-> ConstrainCategory(rows, keys[k], constraints)])

\* Variant: the difference without the floor at zero.
ConstrainedSavings_NoFloor(total_historical_spend, total_constrained_spend) ==
    RSub(total_historical_spend, total_constrained_spend)

\* constrained_savings = max(0.0, total_historical_spend - total_constrained_spend)
ConstrainedSavings(total_historical_spend, total_constrained_spend) ==
    PyMax(R(0), RSub(total_historical_spend, total_constrained_spend))

\* int(recommendations_df["dual_sourced"].sum())
DualSourcedCategories(recs) == IntSum([i \in 1..Len(recs) |-> recs[i].dual_sourced])

ConstrainedSummary(rows, recs) ==
    LET keys == GroupKeys(rows)
        total_historical_spend ==
            SeqSum([k \in 1..Len(keys) |-> R(CategoryHistory(rows, keys[k]).category_spend_ngn)])
        total_constrained_spend == SeqSum([i \in 1..Len(recs) |-> recs[i].projected_spend_ngn])
        constrained_savings == ConstrainedSavings(total_historical_spend, total_constrained_spend)
    IN  [constrained_spend_ngn |-> total_constrained_spend,
         constrained_savings_ngn |-> constrained_savings,
         constrained_savings_pct |->
            IF RLt(R(0), total_historical_spend)
            THEN RMul(RDiv(constrained_savings, total_historical_spend), R(100)) ELSE R(0),
         dual_sourced_categories |-> DualSourcedCategories(recs)]

ConstrainedEmptySummary == [constrained_spend_ngn |-> R(0), constrained_savings_ngn |-> R(0)]

\* Eligibility gates: OTD floor, quality ceiling, risk cap.
Gates ==
    { [min_on_time_delivery_pct |-> R(0), max_quality_incidents_per_order |-> 5, max_risk_level |-> "High"],
      [min_on_time_delivery_pct |-> R(90), max_quality_incidents_per_order |-> 5, max_risk_level |-> "High"],
      [min_on_time_delivery_pct |-> R(0), max_quality_incidents_per_order |-> 1, max_risk_level |-> "Medium"],
      [min_on_time_delivery_pct |-> R(0), max_quality_incidents_per_order |-> 5, max_risk_level |-> "Low"] }

MinPricePercentiles == {R(0), Pct(50), R(1)}

MaxSingleSupplierShares == {Pct(30), Pct(80)}

MinDualSourceThresholds == {20, 30}

Constraints ==
    { [min_on_time_delivery_pct |-> g.min_on_time_delivery_pct,
       max_quality_incidents_per_order |-> g.max_quality_incidents_per_order,
       max_risk_level |-> g.max_risk_level,
       min_dual_source_threshold |-> t,
       min_price_percentile |-> p,
       max_single_supplier_share |-> m] :
      g \in Gates, p \in MinPricePercentiles, m \in MaxSingleSupplierShares,
      t \in MinDualSourceThresholds }

run_constrained_optimization(constraints) ==
    /\ call = NoCall
    /\ call' = [fn |-> "run_constrained_optimization", constraints |-> constraints]
    /\ \E recs \in { IF supplier_metrics = <<>> THEN <<>>
                     ELSE ConstrainedRows(supplier_metrics, constraints) } :
           IF supplier_metrics = <<>>
           THEN /\ recommendations_df' = <<>>
                /\ summary' = ConstrainedEmptySummary
                /\ raised' = "none"
           ELSE IF recs = <<>>
           \* recommendations_df["dual_sourced"] of a frame without columns
           THEN /\ recommendations_df' = <<>>
                /\ summary' = <<>>
                /\ raised' = "KeyError"
           ELSE /\ recommendations_df' = recs
                /\ summary' = ConstrainedSummary(supplier_metrics, recs)
                /\ raised' = "none"
    /\ UNCHANGED <<supplier_metrics, monte_carlo_state>>

\* ---------------------------------------------------------- monte_carlo.py

\* np.random is one generator for the whole process.  Its state is a residue
\* stepped by a full-period congruence, and each step yields one standard
\* normal variate, here one of -2 .. 2.
RngStates == 0..(RngModulus - 1)

\* Variant: the call leaves the generator as it finds it.
np_random_seed_Skipped(state, random_seed) == state

\* np.random.seed(random_seed): the new state depends on the seed alone.
np_random_seed(state, random_seed) == random_seed % RngModulus

RngStep(state) == (5 * state + 3) % RngModulus

StandardNormal(state) == (state % 5) - 2

\* n steps of the generator: the first half of them, then the rest.
RECURSIVE Advance(_, _)
Advance(state, n) ==
    IF n = 0 THEN state
    ELSE IF n = 1 THEN RngStep(state)
    ELSE CHOOSE after \in { Advance(half, n - n \div 2) :
                                half \in { Advance(state, n \div 2) } } : TRUE

\* np.random.normal(loc, scale, size): the next `size` variates of the
\* generator, scaled and shifted.  The generator is left at Advance(state, size).
np_random_normal(state, loc, scale, size) ==
    [i \in 1..size |-> RAdd(loc, RMul(scale, R(StandardNormal(Advance(state, i)))))]

\* np.maximum(floor, values), elementwise.
np_maximum(floor, values) ==
    [i \in 1..Len(values) |-> IF RLt(values[i], floor) THEN floor ELSE values[i]]

\* dict.get(key, default)
Get(d, key, default) == IF key \in DOMAIN d THEN d[key] ELSE default

\* uncertainty_params=None
NoneValue == [none |-> TRUE]

DefaultUncertaintyParams ==
    [price_standardization_sigma |-> Pct(15),
     performance_improvement_sigma |-> Pct(20),
     consolidation_sigma |-> Pct(25),
     total_spend_sigma |-> Pct(5)]

UncertaintyParamsOf(uncertainty_params) ==
    IF uncertainty_params = NoneValue THEN DefaultUncertaintyParams ELSE uncertainty_params

\* The four draws, in the order the code makes them.
Levers == <<"price", "perf", "cons", "spend">>

BaseKey(lever) ==
    CASE lever = "price" -> "price_standardization_savings"
      [] lever = "perf" -> "performance_improvement_savings"
      [] lever = "cons" -> "consolidation_savings"
      [] lever = "spend" -> "total_spend"

SigmaKey(lever) ==
    CASE lever = "price" -> "price_standardization_sigma"
      [] lever = "perf" -> "performance_improvement_sigma"
      [] lever = "cons" -> "consolidation_sigma"
      [] lever = "spend" -> "total_spend_sigma"

SigmaDefault(lever) ==
    CASE lever = "price" -> Pct(15)
      [] lever = "perf" -> Pct(20)
      [] lever = "cons" -> Pct(25)
      [] lever = "spend" -> Pct(5)

\* total_spend_base, price_base, perf_base, cons_base
Base(args, lever) == R(Get(args.base_insights, BaseKey(lever), 0))

\* price_sigma, perf_sigma, cons_sigma, spend_sigma
Sigma(args, lever) ==
    RMul(Base(args, lever),
         Get(UncertaintyParamsOf(args.uncertainty_params), SigmaKey(lever), SigmaDefault(lever)))

DrawFloor(args, lever) ==
    IF lever = "spend" THEN RMul(Base(args, lever), Pct(50)) ELSE R(0)

\* One entry of `draws`, drawn with the generator in `state`.
LeverDraws(state, args, lever) ==
    np_maximum(DrawFloor(args, lever),
               np_random_normal(state, Base(args, lever), Sigma(args, lever), args.num_simulations))

NoDraws == [price |-> <<>>, perf |-> <<>>, cons |-> <<>>, spend |-> <<>>]

TotalSavingsDraws(d) ==
    [i \in 1..Len(d.price) |-> RAdd(RAdd(d.price[i], d.perf[i]), d.cons[i])]

SavingsPctDraws(d) ==
    [i \in 1..Len(d.price) |-> RMul(RDiv(TotalSavingsDraws(d)[i], d.spend[i]), R(100))]

HasNaN(a) == \E i \in 1..Len(a) : IsNaN(a[i])

Sorted(a) == SortSeq(a, LAMBDA x, y : RLt(x, y))

np_mean(a) == RDiv(SeqSum(a), R(Len(a)))

\* The square root is kept exact: the root of x is written [sqrt_of |-> x].
Sqrt(x) == [sqrt_of |-> x]

\* np.std(a): the root of the mean squared deviation from the mean.
np_std(a) ==
    Sqrt(np_mean([i \in 1..Len(a) |-> RMul(RSub(a[i], np_mean(a)), RSub(a[i], np_mean(a)))]))

\* Linear interpolation at the 0-based position q / 100 * (n - 1) of `ordered`.
Interpolate(ordered, q) ==
    LET n == Len(ordered)
        below == (q * (n - 1)) \div 100
        above == IF below + 1 < n THEN below + 1 ELSE below
        gamma == Norm((q * (n - 1)) % 100, 100)
    IN  RAdd(ordered[below + 1], RMul(gamma, RSub(ordered[above + 1], ordered[below + 1])))

\* Variant: the interpolation applied to the draws in the order drawn.
np_percentile_Unsorted(a, q) == IF HasNaN(a) THEN NaN ELSE Interpolate(a, q)

\* np.percentile(a, q), linear method.
np_percentile(a, q) == IF HasNaN(a) THEN NaN ELSE Interpolate(Sorted(a), q)

\* np.median(a): the middle of the sorted values, or the mean of the two middles.
np_median(a) ==
    LET n == Len(a)
        s == Sorted(a)
    IN  IF HasNaN(a) THEN NaN
        ELSE IF n % 2 = 1 THEN s[(n + 1) \div 2]
        ELSE RDiv(RAdd(s[n \div 2], s[n \div 2 + 1]), R(2))

\* Variant: the last statistic is left out.
Results_WithoutLast(total_savings_draws, savings_pct_draws) ==
    [total_savings_mean_ngn |-> np_mean(total_savings_draws),
     total_savings_median_ngn |-> np_median(total_savings_draws),
     total_savings_std_ngn |-> np_std(total_savings_draws),
     total_savings_p05_ngn |-> np_percentile(total_savings_draws, 5),
     total_savings_p25_ngn |-> np_percentile(total_savings_draws, 25),
     total_savings_p75_ngn |-> np_percentile(total_savings_draws, 75),
     total_savings_p95_ngn |-> np_percentile(total_savings_draws, 95),
     savings_pct_mean |-> np_mean(savings_pct_draws),
     savings_pct_median |-> np_median(savings_pct_draws),
     savings_pct_p05 |-> np_percentile(savings_pct_draws, 5)]

\* The `results` dict.
Results(total_savings_draws, savings_pct_draws) ==
    [total_savings_mean_ngn |-> np_mean(total_savings_draws),
     total_savings_median_ngn |-> np_median(total_savings_draws),
     total_savings_std_ngn |-> np_std(total_savings_draws),
     total_savings_p05_ngn |-> np_percentile(total_savings_draws, 5),
     total_savings_p25_ngn |-> np_percentile(total_savings_draws, 25),
     total_savings_p75_ngn |-> np_percentile(total_savings_draws, 75),
     total_savings_p95_ngn |-> np_percentile(total_savings_draws, 95),
     savings_pct_mean |-> np_mean(savings_pct_draws),
     savings_pct_median |-> np_median(savings_pct_draws),
     savings_pct_p05 |-> np_percentile(savings_pct_draws, 5),
     savings_pct_p95 |-> np_percentile(savings_pct_draws, 95)]

\* The draws whose np.random.normal raises ValueError: scale < 0.
NegativeScale(args) == { k \in 1..Len(Levers) : RLt(Sigma(args, Levers[k]), R(0)) }

\* The number of draws the call completes.
LeversDrawn(args) ==
    IF NegativeScale(args) = {} THEN Len(Levers)
    ELSE (CHOOSE k \in NegativeScale(args) : \A j \in NegativeScale(args) : k <= j) - 1

\* The generator before draw k of a call that seeded it to `seeded`.
GeneratorAt(seeded, args, k) == Advance(seeded, (k - 1) * args.num_simulations)

DrawsFrom(seeded, args) ==
    [price |-> LeverDraws(GeneratorAt(seeded, args, 1), args, "price"),
     perf |-> LeverDraws(GeneratorAt(seeded, args, 2), args, "perf"),
     cons |-> LeverDraws(GeneratorAt(seeded, args, 3), args, "cons"),
     spend |-> LeverDraws(GeneratorAt(seeded, args, 4), args, "spend")]

\* One uninterrupted run of the function body with the generator in `state`:
\* the generator it leaves, its draws, and what it returns or raises.
MonteCarloRun(state, args) ==
    LET seeded == np_random_seed(state, args.random_seed)
        failed == NegativeScale(args) # {}
        d == DrawsFrom(seeded, args)
    IN  [raised |-> IF failed THEN "ValueError" ELSE "none",
         rng |-> GeneratorAt(seeded, args, LeversDrawn(args) + 1),
         draws |-> IF failed THEN NoDraws ELSE d,
         results |-> IF failed THEN <<>> ELSE Results(TotalSavingsDraws(d), SavingsPctDraws(d))]

\* base_insights: every key present; none of the keys the function reads (the
\* fixture of the tests); a negative lever.
BaseInsights ==
    { [price_standardization_savings |-> 100, performance_improvement_savings |-> 200,
       consolidation_savings |-> 50, total_spend |-> 1000],
      [total_spend_ngn |-> 1000, consolidation_savings_ngn |-> 50],
      [price_standardization_savings |-> 100, performance_improvement_savings |-> 200,
       consolidation_savings |-> -50, total_spend |-> 1000] }

RandomSeeds == {7, 42}

UncertaintyParams ==
    { NoneValue,
      [price_standardization_sigma |-> R(1), performance_improvement_sigma |-> R(1),
       consolidation_sigma |-> R(1), total_spend_sigma |-> Pct(50)],
      [total_spend_sigma |-> R(0)] }

MonteCarloArgs ==
    [base_insights : BaseInsights, num_simulations : 1..MaxSims,
     random_seed : RandomSeeds, uncertainty_params : UncertaintyParams]

\* Every sigma is 0.
NoUncertainty ==
    [price_standardization_sigma |-> R(0), performance_improvement_sigma |-> R(0),
     consolidation_sigma |-> R(0), total_spend_sigma |-> R(0)]

\* Calls with ManySims draws.  Their arguments are those that make every
\* scale 0, which keeps the sums of the draws within the integers of the
\* checker: a base_insights without the keys the function reads, or sigmas of 0.
ManySimsArgs ==
    { a \in [base_insights : BaseInsights, num_simulations : {ManySims},
             random_seed : RandomSeeds,
             uncertainty_params : UncertaintyParams \cup {NoUncertainty}] :
        \A k \in 1..Len(Levers) : Sigma(a, Levers[k]) = R(0) }

NoEarlier == [call |-> NoCall, summary |-> <<>>, raised |-> "none", other_seed_since |-> FALSE]

run_monte_carlo_analysis(base_insights, num_simulations, random_seed, uncertainty_params) ==
    \E out \in { MonteCarloRun(rng, [random_seed |-> random_seed,
                                     uncertainty_params |-> uncertainty_params,
                                     base_insights |-> base_insights,
                                     num_simulations |-> num_simulations]) } :
        /\ call' = [fn |-> "run_monte_carlo_analysis",
                    random_seed |-> random_seed,
                    uncertainty_params |-> uncertainty_params,
                    base_insights |-> base_insights,
                    num_simulations |-> num_simulations]
        /\ rng' = out.rng
        /\ draws' = out.draws
        /\ summary' = out.results
        /\ raised' = out.raised
        \* the caller notes whether a call with another seed followed the kept one
        /\ earlier' = IF earlier = NoEarlier THEN earlier
                      ELSE [earlier EXCEPT !.other_seed_since =
                                @ \/ random_seed # earlier.call.random_seed]
        /\ UNCHANGED <<supplier_metrics, recommendations_df, threads>>

\* mc_results1 = run_monte_carlo_analysis(...): the caller keeps what the
\* most recent call returned.
KeepResults ==
    /\ earlier = NoEarlier
    /\ call # NoCall
    /\ earlier' = [call |-> call, summary |-> summary, raised |-> raised,
                   other_seed_since |-> FALSE]
    /\ UNCHANGED <<supplier_metrics, call, recommendations_df, summary, raised,
                   rng, draws, threads>>

\* Two invocations in one process.  np.random.seed and np.random.normal each
\* run under the generator's lock; between them the other invocation may run.
Threads == {1, 2}

IdleThread == [draws |-> NoDraws, args |-> <<>>, results |-> <<>>, pc |-> "idle"]

NextPc(pc) ==
    CASE pc = "seed" -> "price"
      [] pc = "price" -> "perf"
      [] pc = "perf" -> "cons"
      [] pc = "cons" -> "spend"
      [] pc = "spend" -> "results"
      [] pc = "results" -> "done"

\* Arguments of the concurrent invocations: the levers all positive, the
\* default uncertainty, at most MaxConcurrentSims simulations.
ConcurrentArgs ==
    { a \in MonteCarloArgs :
        /\ "total_spend" \in DOMAIN a.base_insights
        /\ NegativeScale(a) = {}
        /\ a.uncertainty_params = NoneValue
        /\ a.num_simulations <= MaxConcurrentSims }

Invoke(t, args) ==
    /\ threads[t].pc = "idle"
    /\ threads' = [threads EXCEPT ![t] = [draws |-> NoDraws, args |-> args,
                                          results |-> <<>>, pc |-> "seed"]]
    /\ UNCHANGED <<supplier_metrics, call, recommendations_df, summary, raised,
                   rng, draws, earlier>>

\* np.random.seed(random_seed)
SeedStep(t) ==
    /\ threads[t].pc = "seed"
    /\ rng' = np_random_seed(rng, threads[t].args.random_seed)
    /\ threads' = [threads EXCEPT ![t].pc = NextPc(@)]
    /\ UNCHANGED <<supplier_metrics, call, recommendations_df, summary, raised,
                   draws, earlier>>

\* One entry of `draws`: np.maximum(floor, np.random.normal(...)).
DrawStep(t) ==
    /\ threads[t].pc \in { Levers[k] : k \in 1..Len(Levers) }
    /\ rng' = Advance(rng, threads[t].args.num_simulations)
    /\ threads' = [threads EXCEPT
                      ![t].draws[threads[t].pc] = LeverDraws(rng, threads[t].args, threads[t].pc),
                      ![t].pc = NextPc(@)]
    /\ UNCHANGED <<supplier_metrics, call, recommendations_df, summary, raised,
                   draws, earlier>>

\* The statistics of the invocation's own draws, and the return.
ReturnStep(t) ==
    /\ threads[t].pc = "results"
    /\ threads' = [threads EXCEPT
                      ![t].results = Results(TotalSavingsDraws(threads[t].draws),
                                             SavingsPctDraws(threads[t].draws)),
                      ![t].pc = NextPc(@)]
    /\ UNCHANGED <<supplier_metrics, call, recommendations_df, summary, raised,
                   rng, draws, earlier>>

\* ----------------------------------------------------- scenario_analysis.py

\* Variant: the digits after the last kept one are cut off.
Round_Down(x, ndigits) ==
    IF IsNaN(x) THEN NaN
    ELSE Norm((x[1] * 10^ndigits) \div x[2], 10^ndigits)

\* round(x, ndigits): the nearest multiple of 10^-ndigits, the even one of the
\* two when x is halfway between them.
Round(x, ndigits) ==
    IF IsNaN(x) THEN NaN
    ELSE LET scaled == x[1] * 10^ndigits
             below == scaled \div x[2]
             twice_rest == 2 * (scaled % x[2])
             nearest == IF twice_rest < x[2] THEN below
                        ELSE IF twice_rest > x[2] THEN below + 1
                        ELSE IF below % 2 = 0 THEN below ELSE below + 1
         IN  Norm(nearest, 10^ndigits)

\* The body of the loop over scenario_factors.items(): the row of one scenario.
ScenarioRow(insights, scenario_name, factors) ==
    LET base_price == R(Get(insights, "price_standardization_savings", 0))
        base_perf == R(Get(insights, "performance_improvement_savings", 0))
        base_cons == R(Get(insights, "consolidation_savings", 0))
        total_spend == R(Get(insights, "total_spend", 0))
        price == RMul(base_price, Get(factors, "price_standardization", R(1)))
        perf == RMul(base_perf, Get(factors, "performance_improvement", R(1)))
        cons == RMul(base_cons, Get(factors, "consolidation", R(1)))
        total == RAdd(RAdd(price, perf), cons)
        pct == IF RLt(R(0), total_spend) THEN RMul(RDiv(total, total_spend), R(100)) ELSE R(0)
    IN  [consolidation_savings_ngn |-> Round(cons, 2),
         scenario |-> scenario_name,
         price_standardization_savings_ngn |-> Round(price, 2),
         performance_improvement_savings_ngn |-> Round(perf, 2),
         total_savings_ngn |-> Round(total, 2),
         savings_pct_of_spend |-> Round(pct, 4)]

\* DataFrame.sort_values("total_savings_ngn"): the frames it can return.
sort_values(rows) ==
    { [k \in 1..Len(rows) |-> rows[order[k]]] :
      order \in SortOrders([i \in 1..Len(rows) |-> rows[i].total_savings_ngn], TRUE) }

\* insights: the example of the tests; small amounts; no spend; no total_spend
\* key; a negative spend.
Insights ==
    { [price_standardization_savings |-> 100000, performance_improvement_savings |-> 200000,
       consolidation_savings |-> 50000, total_spend |-> 1000000],
      [price_standardization_savings |-> 1, performance_improvement_savings |-> 1,
       consolidation_savings |-> 1, total_spend |-> 3],
      [price_standardization_savings |-> 100, performance_improvement_savings |-> 200,
       consolidation_savings |-> 50, total_spend |-> 0],
      [price_standardization_savings |-> 100],
      [price_standardization_savings |-> 100, performance_improvement_savings |-> 200,
       consolidation_savings |-> 50, total_spend |-> -5] }

\* The entries a scenario mapping is made of: name and factors.
Scenarios ==
    { [factors |-> [price_standardization |-> R(1), performance_improvement |-> R(1),
                    consolidation |-> R(1)],
       scenario |-> "Base"],
      [factors |-> [price_standardization |-> Pct(80), performance_improvement |-> Pct(80),
                    consolidation |-> Pct(80)],
       scenario |-> "Conservative"],
      [factors |-> [price_standardization |-> Norm(1, 8)], scenario |-> "PriceOnly"],
      [factors |-> [consolidation |-> R(0)], scenario |-> "NoConsolidation"] }

\* scenario_factors: a dict, so its entries are in insertion order and no two
\* have the same name.
ScenarioFactors ==
    { m \in UNION { [1..k -> Scenarios] : k \in 0..MaxScenarios } :
        \A i, j \in 1..Len(m) : m[i].scenario = m[j].scenario => i = j }

run_sensitivity_analysis(insights, scenario_factors) ==
    \E rows \in sort_values([k \in 1..Len(scenario_factors) |->
                                ScenarioRow(insights, scenario_factors[k].scenario,
                                            scenario_factors[k].factors)]) :
        /\ call' = [fn |-> "run_sensitivity_analysis", insights |-> insights,
                    scenario_factors |-> scenario_factors]
        \* pd.DataFrame([]) has no column to sort by
        /\ IF rows = <<>>
           THEN recommendations_df' = <<>> /\ raised' = "KeyError"
           ELSE recommendations_df' = rows /\ raised' = "none"
        /\ summary' = <<>>
        /\ UNCHANGED <<supplier_metrics, monte_carlo_state>>

\* ------------------------------------------------------ specifications

\* The optimizers start from any metrics table; they leave the generator and
\* the Monte Carlo bookkeeping alone, so one value of each stands for all.
Init ==
    /\ supplier_metrics \in MetricTables
    /\ call = NoCall
    /\ recommendations_df = <<>>
    /\ summary = <<>>
    /\ raised = "none"
    /\ rng = 0
    /\ draws = NoDraws
    /\ earlier = NoEarlier
    /\ threads = [t \in Threads |-> IdleThread]

SupplierOptimization ==
    \E n \in 1..MaxSuppliersPerCategory, m \in MinSupplierShares, w \in ScoreWeights :
        run_supplier_optimization(n, m, w)

ConstrainedOptimization ==
    \E c \in Constraints : run_constrained_optimization(c)

Next == SupplierOptimization \/ ConstrainedOptimization

Spec == Init /\ [][Next]_vars

NextOpt == SupplierOptimization

SpecOpt == Init /\ [][NextOpt]_vars

NextCon == ConstrainedOptimization

SpecCon == Init /\ [][NextCon]_vars

\* A category whose suppliers differ in nothing but the price: suppliers 5 to
\* 7, each Low risk, always on time, without quality cost, priced 10, 11 or 13.
InitTied ==
    /\ supplier_metrics \in
          UNION { [1..k -> { MetricRow(Categories[1],
                                       [supplier_id |-> id, risk_level |-> "Low",
                                        on_time_delivery_pct |-> R(100),
                                        quality_incident_count |-> 0, quality_cost_ngn |-> 0,
                                        total_quantity |-> 1], cost) :
                             id \in 5..7, cost \in {10, 11, 13} }] : k \in 0..MaxRows }
    /\ call = NoCall
    /\ recommendations_df = <<>>
    /\ summary = <<>>
    /\ raised = "none"
    /\ rng = 0
    /\ draws = NoDraws
    /\ earlier = NoEarlier
    /\ threads = [t \in Threads |-> IdleThread]

SpecOptTied == InitTied /\ [][NextOpt]_vars

\* Metrics tables in which every category can hold several suppliers.
InitEach ==
    /\ supplier_metrics \in
          { a \o b : a \in Frames(Categories[1], MaxRowsEach),
                     b \in Frames(Categories[2], MaxRowsEach) }
    /\ call = NoCall
    /\ recommendations_df = <<>>
    /\ summary = <<>>
    /\ raised = "none"
    /\ rng = 0
    /\ draws = NoDraws
    /\ earlier = NoEarlier
    /\ threads = [t \in Threads |-> IdleThread]

SpecOptEach == InitEach /\ [][NextOpt]_vars

\* The simulator reads no metrics table; numpy seeds the generator from the
\* operating system when it is imported, so its first state is any state.
InitMC ==
    /\ supplier_metrics = <<>>
    /\ call = NoCall
    /\ recommendations_df = <<>>
    /\ summary = <<>>
    /\ raised = "none"
    /\ rng \in RngStates
    /\ draws = NoDraws
    /\ earlier = NoEarlier
    /\ threads = [t \in Threads |-> IdleThread]

MonteCarloAnalysis ==
    \E a \in MonteCarloArgs :
        run_monte_carlo_analysis(a.base_insights, a.num_simulations, a.random_seed,
                                 a.uncertainty_params)

\* Calls one after the other.
NextMC == MonteCarloAnalysis \/ KeepResults

SpecMC == InitMC /\ [][NextMC]_vars

MonteCarloManySims ==
    \E a \in ManySimsArgs :
        run_monte_carlo_analysis(a.base_insights, a.num_simulations, a.random_seed,
                                 a.uncertainty_params)

\* Calls with ManySims draws, one after the other.
NextMCMany == MonteCarloManySims \/ KeepResults

SpecMCMany == InitMC /\ [][NextMCMany]_vars

\* Two invocations whose steps interleave.
NextMCConc ==
    \E t \in Threads :
        \/ \E a \in ConcurrentArgs : Invoke(t, a)
        \/ SeedStep(t)
        \/ DrawStep(t)
        \/ ReturnStep(t)

SpecMCConc == InitMC /\ [][NextMCConc]_vars

\* The scenario table of one insights dict and one scenario mapping.
NextSens ==
    \E i \in Insights, m \in ScenarioFactors : run_sensitivity_analysis(i, m)

SpecSens == InitMC /\ [][NextSens]_vars

\* The metrics query on any purchase_orders and quality_incidents tables.
NextSQL ==
    \E purchase_orders \in PurchaseOrders, quality_incidents \in QualityIncidents :
        read_sql(purchase_orders, quality_incidents)

SpecSQL == InitMC /\ [][NextSQL]_vars

\* ---------------------------------------------------------------- claims

IsOpt == call.fn = "run_supplier_optimization"

IsCon == call.fn = "run_constrained_optimization"

RecsOf(cat) == SelectSeq(recommendations_df, LAMBDA r : r.category = cat)

RecCategories == { recommendations_df[i].category : i \in 1..Len(recommendations_df) }

HistoricalSpend(cat) == CategoryHistory(supplier_metrics, cat).category_spend_ngn

\* Rows of a category that pass the three eligibility gates of the call.
GatePassing(cat) ==
    SelectSeq(GroupOf(supplier_metrics, cat), LAMBDA row : PassesGates(row, call.constraints))

SupplierIds(frame) == { frame[i].supplier_id : i \in 1..Len(frame) }

\* C1: in every category of run_supplier_optimization's output the
\* recommended_share values sum to 1.
C1_SharesSumToOne ==
    IsOpt =>
        \A cat \in RecCategories :
            LET rows == RecsOf(cat)
            IN  SeqSum([i \in 1..Len(rows) |-> rows[i].recommended_share]) = R(1)

C3_ShareWithinCap ==
    IsCon =>
        \A i \in 1..Len(recommendations_df) :
            LET r == recommendations_df[i]
            IN  Cardinality(SupplierIds(GatePassing(r.category))) >= 2
                    => RLe(r.constrained_share, call.constraints.max_single_supplier_share)

\* C4: the savings of both summaries are never negative.
C4_SavingsNeverNegative ==
    /\ IsOpt => RLe(R(0), summary.optimization_savings_ngn)
    /\ IsCon /\ raised = "none" => RLe(R(0), summary.constrained_savings_ngn)

\* C4 witness: the projected spend of the unconstrained optimizer exceeds the
\* historical spend and the reported savings are zero.
C4_Witness ==
    /\ IsOpt
    /\ RLt(summary.historical_spend_ngn, summary.optimized_spend_ngn)
    /\ summary.optimization_savings_ngn = R(0)

\* C5: dual_sourced_categories is the number of categories that hold a primary
\* and a secondary row.
C5_DualSourcedCount ==
    IsCon /\ recommendations_df # <<>> =>
        summary.dual_sourced_categories =
            Cardinality({ cat \in RecCategories : \E i \in 1..Len(RecsOf(cat)) : RecsOf(cat)[i].dual_sourced = 1 })

\* A recommendation row for a cheapest row of `frame`.
IsCheapestOf(rec, frame) ==
    /\ \E i \in 1..Len(frame) :
          /\ frame[i].supplier_id = rec.supplier_id
          /\ frame[i].avg_unit_cost_ngn = rec.avg_unit_cost_ngn
    /\ \A i \in 1..Len(frame) : rec.avg_unit_cost_ngn <= frame[i].avg_unit_cost_ngn

NonePriceQualified(frame, min_price_pct) ==
    \A i \in 1..Len(frame) :
        ~RLe(R(frame[i].avg_unit_cost_ngn), PriceThreshold(frame, min_price_pct))

\* C6: every category with a metric row gets a recommendation row and the call
\* raises nothing; a category whose suppliers all fail the gates gets its
\* cheapest supplier alone, and a category whose eligible suppliers all fail
\* the price threshold gets its cheapest eligible supplier alone.
C6_EveryCategoryServed ==
    IsCon =>
        /\ raised = "none"
        /\ \A k \in 1..Len(GroupKeys(supplier_metrics)) :
              LET cat == GroupKeys(supplier_metrics)[k]
                  rows == RecsOf(cat)
                  group == GroupOf(supplier_metrics, cat)
                  passing == GatePassing(cat)
              IN  /\ Len(rows) >= 1
                  /\ passing = <<>> =>
                        Len(rows) = 1 /\ IsCheapestOf(rows[1], group)
                  /\ passing # <<>> /\ NonePriceQualified(passing, call.constraints.min_price_percentile) =>
                        Len(rows) = 1 /\ IsCheapestOf(rows[1], passing)

\* C6 witness: one category has no supplier that passes the gates, another has
\* eligible suppliers none of which passes the price threshold.
C6_Witness ==
    /\ IsCon
    /\ raised = "none"
    /\ \E cat \in RecCategories : GatePassing(cat) = <<>>
    /\ \E cat \in RecCategories :
          /\ Len(GatePassing(cat)) >= 2
          /\ NonePriceQualified(GatePassing(cat), call.constraints.min_price_percentile)

IsMC == call.fn = "run_monte_carlo_analysis"

\* C7: a run with the arguments of an earlier run returns what the earlier run
\* returned, whatever calls were made in between.
C7_SameSeedSameResults ==
    earlier # NoEarlier /\ call = earlier.call =>
        summary = earlier.summary /\ raised = earlier.raised

\* C7 witness: after a kept run and a run with another seed, a run with the
\* kept run's arguments has returned.
C7_Witness ==
    /\ earlier # NoEarlier
    /\ earlier.other_seed_since
    /\ call = earlier.call
    /\ raised = "none"
    /\ call.num_simulations > 1

\* C8: the total-savings percentiles of every result are ordered:
\* p05 <= p25 <= median <= p75 <= p95.
C8_PercentilesOrdered ==
    IsMC /\ raised = "none" =>
        /\ RLe(summary.total_savings_p05_ngn, summary.total_savings_p25_ngn)
        /\ RLe(summary.total_savings_p25_ngn, summary.total_savings_median_ngn)
        /\ RLe(summary.total_savings_median_ngn, summary.total_savings_p75_ngn)
        /\ RLe(summary.total_savings_p75_ngn, summary.total_savings_p95_ngn)

\* C8 witness: a result whose five percentiles differ, from draws that were
\* not made in ascending order.
C8_Witness ==
    /\ IsMC
    /\ raised = "none"
    /\ RLt(summary.total_savings_p05_ngn, summary.total_savings_p25_ngn)
    /\ RLt(summary.total_savings_p25_ngn, summary.total_savings_median_ngn)
    /\ RLt(summary.total_savings_median_ngn, summary.total_savings_p75_ngn)
    /\ RLt(summary.total_savings_p75_ngn, summary.total_savings_p95_ngn)
    /\ TotalSavingsDraws(draws) # Sorted(TotalSavingsDraws(draws))

Statistics == {"mean", "median", "std", "p05", "p25", "p75", "p95"}

\* The key under which the result holds a statistic of the total-savings
\* distribution.
TotalSavingsKey(statistic) ==
    CASE statistic = "mean" -> "total_savings_mean_ngn"
      [] statistic = "median" -> "total_savings_median_ngn"
      [] statistic = "std" -> "total_savings_std_ngn"
      [] statistic = "p05" -> "total_savings_p05_ngn"
      [] statistic = "p25" -> "total_savings_p25_ngn"
      [] statistic = "p75" -> "total_savings_p75_ngn"
      [] statistic = "p95" -> "total_savings_p95_ngn"

\* ... and of the savings-percentage distribution.
SavingsPctKey(statistic) ==
    CASE statistic = "mean" -> "savings_pct_mean"
      [] statistic = "median" -> "savings_pct_median"
      [] statistic = "std" -> "savings_pct_std"
      [] statistic = "p05" -> "savings_pct_p05"
      [] statistic = "p25" -> "savings_pct_p25"
      [] statistic = "p75" -> "savings_pct_p75"
      [] statistic = "p95" -> "savings_pct_p95"

SummaryAlone(args) == MonteCarloRun(rng, args).results

\* C10: every concurrent invocation returns the summary it returns when run
\* alone.
C10_ConcurrentAsAlone ==
    \A t \in Threads :
        threads[t].pc = "done" => threads[t].results = SummaryAlone(threads[t].args)

IsSens == call.fn = "run_sensitivity_analysis"

\* The row the returned table holds for a scenario.
RowOf(scenario_name) ==
    CHOOSE row \in { recommendations_df[i] : i \in 1..Len(recommendations_df) } :
        row.scenario = scenario_name

\* The sum of the three base lever savings, each times its factor of the
\* scenario, a missing factor being 1.0.
FactoredSavings(insights, factors) ==
    RAdd(RAdd(RMul(R(Get(insights, "price_standardization_savings", 0)),
                   Get(factors, "price_standardization", R(1))),
              RMul(R(Get(insights, "performance_improvement_savings", 0)),
                   Get(factors, "performance_improvement", R(1)))),
         RMul(R(Get(insights, "consolidation_savings", 0)),
              Get(factors, "consolidation", R(1))))

\* That sum as a percentage of total_spend, 0 when total_spend is not positive.
FactoredSavingsPct(insights, factors) ==
    IF Get(insights, "total_spend", 0) > 0
    THEN RMul(RDiv(FactoredSavings(insights, factors), R(Get(insights, "total_spend", 0))), R(100))
    ELSE R(0)

\* `reported` is a nearest multiple of 10^-ndigits to `exact`, and the even one
\* when `exact` is halfway between two.
IsRoundingOf(reported, exact, ndigits) ==
    LET units == reported[1] * (10^ndigits \div reported[2])
        twice_off == 2 * (units * exact[2] - exact[1] * 10^ndigits)
    IN  /\ ~IsNaN(reported) /\ ~IsNaN(exact)
        /\ 10^ndigits % reported[2] = 0
        /\ Abs(twice_off) <= exact[2]
        /\ Abs(twice_off) = exact[2] => units % 2 = 0

\* The example: spend 1,000,000, levers 100,000 / 200,000 / 50,000 and all
\* factors 1.0 give 350,000 and 35.0.
SensitivityExample ==
    \A k \in 1..Len(call.scenario_factors) :
        LET s == call.scenario_factors[k]
        IN  /\ Get(call.insights, "total_spend", 0) = 1000000
            /\ Get(call.insights, "price_standardization_savings", 0) = 100000
            /\ Get(call.insights, "performance_improvement_savings", 0) = 200000
            /\ Get(call.insights, "consolidation_savings", 0) = 50000
            /\ \A f \in DOMAIN s.factors : s.factors[f] = R(1)
            => /\ RowOf(s.scenario).total_savings_ngn = R(350000)
               /\ RowOf(s.scenario).savings_pct_of_spend = R(35)

\* C11 as stated: every scenario's row reports exactly the factored savings and
\* exactly their percentage of total_spend.
C11_ExactTotalsAndPct ==
    IsSens /\ raised = "none" =>
        /\ \A k \in 1..Len(call.scenario_factors) :
              LET s == call.scenario_factors[k]
              IN  /\ RowOf(s.scenario).total_savings_ngn = FactoredSavings(call.insights, s.factors)
                  /\ RowOf(s.scenario).savings_pct_of_spend =
                        FactoredSavingsPct(call.insights, s.factors)
        /\ SensitivityExample

\* C11, amended: every scenario's row reports the factored savings rounded to 2
\* decimal places and their percentage of total_spend (0 when total_spend is not
\* positive) rounded to 4 decimal places; the example gives 350,000 and 35.0.
C11_RoundedTotalsAndPct ==
    IsSens /\ raised = "none" =>
        /\ \A k \in 1..Len(call.scenario_factors) :
              LET s == call.scenario_factors[k]
              IN  /\ IsRoundingOf(RowOf(s.scenario).total_savings_ngn,
                                  FactoredSavings(call.insights, s.factors), 2)
                  /\ IsRoundingOf(RowOf(s.scenario).savings_pct_of_spend,
                                  FactoredSavingsPct(call.insights, s.factors), 4)
        /\ SensitivityExample

\* C11 witness: a table of three scenarios, one of them without a factor for
\* some lever, whose percentage is rounded up.
C11_Witness ==
    /\ IsSens
    /\ raised = "none"
    /\ Len(recommendations_df) = 3
    /\ \E k \in 1..Len(call.scenario_factors) :
          LET s == call.scenario_factors[k]
          IN  /\ "price_standardization" \notin DOMAIN s.factors
              /\ RLt(FactoredSavingsPct(call.insights, s.factors),
                     RowOf(s.scenario).savings_pct_of_spend)

\* The ways to tell which rows of `group` the recommendation rows `rows` are:
\* row k of the output is row sel[k] of the category's frame.
Selections(rows, group, scores) ==
    { sel \in [1..Len(rows) -> 1..Len(group)] :
        /\ \A a, b \in 1..Len(rows) : a # b => sel[a] # sel[b]
        /\ \A k \in 1..Len(rows) :
              /\ rows[k].supplier_id = group[sel[k]].supplier_id
              /\ rows[k].avg_unit_cost_ngn = group[sel[k]].avg_unit_cost_ngn
              /\ rows[k].composite_score = scores[sel[k]] }

\* C12: per category run_supplier_optimization outputs
\* min(max_suppliers_per_category, number of suppliers) rows; no supplier left
\* out has a higher composite score than a selected one; among suppliers with
\* equal composite score the one earlier in the original row order is selected
\* first; of three suppliers priced 10, 11, 13 and otherwise tied, with
\* max_suppliers_per_category = 2, those priced 10 and 11 are selected.
C12_TopSuppliersStable ==
    IsOpt =>
        \A c \in 1..Len(GroupKeys(supplier_metrics)) :
            LET cat == GroupKeys(supplier_metrics)[c]
                group == GroupOf(supplier_metrics, cat)
                rows == RecsOf(cat)
                scores == CompositeScores(group, call.score_weights)
            IN  /\ Len(rows) = Min2(call.max_suppliers_per_category, Len(group))
                /\ \E sel \in Selections(rows, group, scores) :
                      LET chosen == { sel[k] : k \in 1..Len(rows) }
                      IN  /\ \A i \in (1..Len(group)) \ chosen, j \in chosen :
                                /\ ~RLt(scores[j], scores[i])
                                /\ REq(scores[i], scores[j]) => j < i
                          /\ \A a, b \in 1..Len(rows) :
                                a < b /\ REq(scores[sel[a]], scores[sel[b]]) => sel[a] < sel[b]
                /\ /\ call.max_suppliers_per_category = 2
                   /\ call.score_weights.unit_cost = Pct(45)
                   /\ { group[i].avg_unit_cost_ngn : i \in 1..Len(group) } = {10, 11, 13}
                   /\ Len(group) = 3
                   => { rows[k].avg_unit_cost_ngn : k \in 1..Len(rows) } = {10, 11}

\* C13: when the metrics query yields no rows both optimizers return, without
\* raising, no recommendation rows and a summary whose savings fields are present
\* and zero: optimization_savings_ngn and optimization_savings_pct, respectively
\* constrained_savings_ngn, constrained_savings_pct and dual_sourced_categories.
C13_EmptyInputZeroSummary ==
    supplier_metrics = <<>> =>
        /\ IsOpt =>
              /\ raised = "none"
              /\ recommendations_df = <<>>
              /\ "optimization_savings_ngn" \in DOMAIN summary /\ summary.optimization_savings_ngn = R(0)
              /\ "optimization_savings_pct" \in DOMAIN summary /\ summary.optimization_savings_pct = R(0)
        /\ IsCon =>
              /\ raised = "none"
              /\ recommendations_df = <<>>
              /\ "constrained_savings_ngn" \in DOMAIN summary /\ summary.constrained_savings_ngn = R(0)
              /\ "constrained_savings_pct" \in DOMAIN summary /\ summary.constrained_savings_pct = R(0)
              /\ "dual_sourced_categories" \in DOMAIN summary
              /\ summary.dual_sourced_categories = 0

\* C14: in each of the four scoring dimensions of run_supplier_optimization
\* (unit cost, delivery, quality cost, risk tier) every supplier of a category
\* scores 1.0 when all suppliers of the category have the same raw value;
\* otherwise the scores lie in [0, 1], the lowest cost, lowest quality cost,
\* highest delivery and best risk tier score 1 and the opposite extreme 0.
C14_MinMaxNormalized ==
    IsOpt =>
        \A c \in 1..Len(GroupKeys(supplier_metrics)) :
            LET group == GroupOf(supplier_metrics, GroupKeys(supplier_metrics)[c])
                rows == 1..Len(group)
                columns == NormalizedScores(group)
                \* raw values, the higher the better
                unit_cost == [i \in rows |-> R(0 - group[i].avg_unit_cost_ngn)]
                delivery == [i \in rows |-> group[i].on_time_delivery_pct]
                quality_cost == [i \in rows |-> R(0 - group[i].quality_cost_ngn)]
                risk_tier == [i \in rows |-> R(0 - risk_level_order(group[i].risk_level))]
                Scaled(raw, scores) ==
                    IF \A i, j \in rows : raw[i] = raw[j]
                    THEN \A i \in rows : scores[i] = R(1)
                    ELSE \A i \in rows :
                            /\ RLe(R(0), scores[i]) /\ RLe(scores[i], R(1))
                            /\ (\A j \in rows : ~RLt(raw[i], raw[j])) => scores[i] = R(1)
                            /\ (\A j \in rows : ~RLt(raw[j], raw[i])) => scores[i] = R(0)
            IN  /\ Scaled(unit_cost, columns.cost_score)
                /\ Scaled(quality_cost, columns.quality_score)
                /\ Scaled(delivery, columns.delivery_score)
                /\ Scaled(risk_tier, columns.risk_score)

\* C15: a supplier with an undefined on-time-delivery percentage never passes
\* the gates of run_constrained_optimization (it is recommended only where no
\* supplier of its category does); in run_supplier_optimization its delivery
\* score is 0, no higher than that of any other supplier of its category, and
\* every composite score and recommended share is a defined number.
C15_UndefinedDeliveryIsWorst ==
    /\ IsCon /\ raised = "none" =>
          \A i \in 1..Len(recommendations_df) :
              IsNaN(recommendations_df[i].on_time_delivery_pct) =>
                  /\ ~PassesGates(recommendations_df[i], call.constraints)
                  /\ GatePassing(recommendations_df[i].category) = <<>>
    /\ IsOpt =>
          /\ \A c \in 1..Len(GroupKeys(supplier_metrics)) :
                LET group == GroupOf(supplier_metrics, GroupKeys(supplier_metrics)[c])
                    delivery_score == NormalizedScores(group).delivery_score
                IN  \A i \in 1..Len(group) :
                        IsNaN(group[i].on_time_delivery_pct) =>
                            /\ delivery_score[i] = R(0)
                            /\ \A j \in 1..Len(group) : RLe(delivery_score[i], delivery_score[j])
          /\ \A i \in 1..Len(recommendations_df) :
                /\ ~IsNaN(recommendations_df[i].composite_score)
                /\ ~IsNaN(recommendations_df[i].recommended_share)

\* C16: a supplier whose risk level is none of Low, Medium, High fails the risk
\* gate of run_constrained_optimization for every max_risk_level of Low, Medium
\* or High (it is recommended only where no supplier of its category passes the
\* gates), and in run_supplier_optimization its risk score is no higher than
\* that of any supplier with a known tier.
C16_UnknownRiskIsRiskiest ==
    LET KnownTiers == {"Low", "Medium", "High"}
    IN  /\ IsCon /\ raised = "none" /\ call.constraints.max_risk_level \in KnownTiers =>
              /\ \A i \in 1..Len(supplier_metrics) :
                    supplier_metrics[i].risk_level \notin KnownTiers =>
                        ~PassesGates(supplier_metrics[i], call.constraints)
              /\ \A i \in 1..Len(recommendations_df) :
                    recommendations_df[i].risk_level \notin KnownTiers =>
                        GatePassing(recommendations_df[i].category) = <<>>
        /\ IsOpt =>
              \A c \in 1..Len(GroupKeys(supplier_metrics)) :
                  LET group == GroupOf(supplier_metrics, GroupKeys(supplier_metrics)[c])
                      risk_score == NormalizedScores(group).risk_score
                  IN  \A i, j \in 1..Len(group) :
                          /\ group[i].risk_level \notin KnownTiers
                          /\ group[j].risk_level \in KnownTiers
                          => RLe(risk_score[i], risk_score[j])

\* C17: no division by zero reaches the caller: every savings percentage that
\* run_supplier_optimization, run_constrained_optimization and
\* run_monte_carlo_analysis return is a finite number, and it is 0 when the
\* historical spend, respectively total_spend, is zero; and where the eligible
\* suppliers of a category all have the same price the constrained price range
\* is 1.0, so the price threshold is that price - (1 - min_price_percentile).
C17_NoDivisionByZero ==
    /\ IsOpt =>
          /\ ~IsNaN(summary.optimization_savings_pct)
          /\ summary.historical_spend_ngn = R(0) => summary.optimization_savings_pct = R(0)
    /\ IsCon /\ raised = "none" /\ recommendations_df # <<>> =>
          /\ ~IsNaN(summary.constrained_savings_pct)
          /\ (\A c \in 1..Len(GroupKeys(supplier_metrics)) :
                  HistoricalSpend(GroupKeys(supplier_metrics)[c]) = 0)
                => summary.constrained_savings_pct = R(0)
          /\ \A c \in 1..Len(GroupKeys(supplier_metrics)) :
                LET eligible == Eligible(GroupOf(supplier_metrics, GroupKeys(supplier_metrics)[c]),
                                         call.constraints)
                IN  (\A i \in 1..Len(eligible) :
                        eligible[i].avg_unit_cost_ngn = eligible[1].avg_unit_cost_ngn)
                    => PriceThreshold(eligible, call.constraints.min_price_percentile) =
                          RSub(R(eligible[1].avg_unit_cost_ngn),
                               RSub(R(1), call.constraints.min_price_percentile))
    /\ IsMC /\ raised = "none" =>
          \A key \in {"savings_pct_mean", "savings_pct_median", "savings_pct_p05", "savings_pct_p95"} :
              /\ ~IsNaN(summary[key])
              /\ Get(call.base_insights, "total_spend", 0) = 0 => summary[key] = R(0)

\* C18: no call of run_supplier_optimization, run_constrained_optimization or
\* run_monte_carlo_analysis changes state that outlives it: the metrics source
\* and the process-wide random generator are after every step what they were
\* before it.
C18_CallsLeaveStateUnchanged ==
    [][supplier_metrics' = supplier_metrics /\ rng' = rng]_vars

\* C19: of two runs with the same base_insights, uncertainty_params and
\* num_simulations >= 100 but different seeds, the second returns another
\* total_savings_mean_ngn than the first.
C19_DifferentSeedsDifferentMeans ==
    /\ earlier # NoEarlier
    /\ IsMC
    /\ raised = "none"
    /\ earlier.raised = "none"
    /\ call.base_insights = earlier.call.base_insights
    /\ call.uncertainty_params = earlier.call.uncertainty_params
    /\ call.num_simulations = earlier.call.num_simulations
    /\ call.num_simulations >= 100
    /\ call.random_seed # earlier.call.random_seed
    => summary.total_savings_mean_ngn # earlier.summary.total_savings_mean_ngn

\* C20: every summary of run_constrained_optimization has a
\* constrained_savings_pct, and it lies between 0 and 100 inclusive.
C20_SavingsPctWithinBounds ==
    IsCon /\ raised = "none" =>
        /\ "constrained_savings_pct" \in DOMAIN summary
        /\ RLe(R(0), summary.constrained_savings_pct)
        /\ RLe(summary.constrained_savings_pct, R(100))

\* C21: in a category where some supplier meets the OTD floor, the quality
\* ceiling and the risk cap, every recommended supplier meets all three; in a
\* category where none does, the one recommendation is the category's cheapest
\* supplier.
C21_GatesRespected ==
    IsCon /\ raised = "none" =>
        \A cat \in RecCategories :
            LET c == call.constraints
                group == GroupOf(supplier_metrics, cat)
                rows == RecsOf(cat)
                Meets(row) ==
                    /\ RLe(c.min_on_time_delivery_pct, row.on_time_delivery_pct)
                    /\ row.quality_incident_count <= c.max_quality_incidents_per_order
                    /\ risk_level_order(row.risk_level) <= risk_level_order(c.max_risk_level)
            IN  IF \E i \in 1..Len(group) : Meets(group[i])
                THEN \A j \in 1..Len(rows) : Meets(rows[j])
                ELSE Len(rows) = 1 /\ IsCheapestOf(rows[1], group)

\* C21 witness: in one category a supplier that fails a gate is cheaper than
\* the recommended supplier, and in another category no supplier meets the
\* gates.
C21_Witness ==
    /\ IsCon
    /\ raised = "none"
    /\ \E cat \in RecCategories :
          /\ GatePassing(cat) # <<>>
          /\ \E i \in 1..Len(GroupOf(supplier_metrics, cat)) :
                LET row == GroupOf(supplier_metrics, cat)[i]
                IN  /\ ~PassesGates(row, call.constraints)
                    /\ row.avg_unit_cost_ngn < RecsOf(cat)[1].avg_unit_cost_ngn
    /\ \E cat \in RecCategories : GatePassing(cat) = <<>>

\* The eligible rows of a category priced at or below
\* max_price - (1 - min_price_percentile) x range, stated from the prices alone.
AtOrBelowThreshold(cat) ==
    LET c == call.constraints
        eligible == Eligible(GroupOf(supplier_metrics, cat), c)
        costs == { eligible[i].avg_unit_cost_ngn : i \in 1..Len(eligible) }
        max_price == CHOOSE x \in costs : \A y \in costs : y <= x
        min_price == CHOOSE x \in costs : \A y \in costs : x <= y
        range == IF max_price = min_price THEN 1 ELSE max_price - min_price
        threshold == RSub(R(max_price), RMul(RSub(R(1), c.min_price_percentile), R(range)))
    IN  SelectSeq(eligible, LAMBDA row : ~RLt(threshold, R(row.avg_unit_cost_ngn)))

\* C22: the price-qualified set of every category is the eligible suppliers at
\* or below the threshold, or the single cheapest eligible supplier when there
\* is none; every recommended supplier is one of the set.
C22_PriceQualifiedSet ==
    IsCon /\ raised = "none" =>
        \A cat \in RecCategories :
            LET eligible == Eligible(GroupOf(supplier_metrics, cat), call.constraints)
                price_qualified == PriceQualified(eligible, call.constraints.min_price_percentile)
                rows == RecsOf(cat)
            IN  /\ IF AtOrBelowThreshold(cat) # <<>>
                   THEN price_qualified = AtOrBelowThreshold(cat)
                   ELSE /\ Len(price_qualified) = 1
                        /\ \E i \in 1..Len(eligible) : eligible[i] = price_qualified[1]
                        /\ \A i \in 1..Len(eligible) :
                              price_qualified[1].avg_unit_cost_ngn <= eligible[i].avg_unit_cost_ngn
                /\ \A j \in 1..Len(rows) :
                      \E i \in 1..Len(price_qualified) :
                          /\ price_qualified[i].supplier_id = rows[j].supplier_id
                          /\ price_qualified[i].avg_unit_cost_ngn = rows[j].avg_unit_cost_ngn

\* C22 witness: in one category the threshold keeps some eligible suppliers and
\* removes others, and in another category no eligible supplier is at or below
\* the threshold.
C22_Witness ==
    /\ IsCon
    /\ raised = "none"
    /\ \E cat \in RecCategories :
          /\ AtOrBelowThreshold(cat) # <<>>
          /\ Len(AtOrBelowThreshold(cat)) < Len(GatePassing(cat))
    /\ \E cat \in RecCategories :
          /\ GatePassing(cat) # <<>>
          /\ AtOrBelowThreshold(cat) = <<>>

\* The price-qualified rows of a category of the most recent constrained call.
QualifiedOf(cat) ==
    PriceQualified(Eligible(GroupOf(supplier_metrics, cat), call.constraints),
                   call.constraints.min_price_percentile)

\* Dual-sourcing is enforced for the category.
DualSourcingEnforced(cat) ==
    /\ HistoricalSpend(cat) > call.constraints.min_dual_source_threshold
    /\ Len(QualifiedOf(cat)) > 1

ProjectedSpend(cat) ==
    SeqSum([i \in 1..Len(RecsOf(cat)) |-> RecsOf(cat)[i].projected_spend_ngn])

\* C24: optimization_savings_ngn is the sum over the categories of
\* max(0, historical category spend - projected category spend).
C24_SavingsFlooredPerCategory ==
    IsOpt /\ supplier_metrics # <<>> =>
        LET keys == GroupKeys(supplier_metrics)
            saved(cat) == RSub(R(HistoricalSpend(cat)), ProjectedSpend(cat))
        IN  summary.optimization_savings_ngn =
                SeqSum([k \in 1..Len(keys) |->
                           IF RLt(R(0), saved(keys[k])) THEN saved(keys[k]) ELSE R(0)])

\* C25: after the metrics query, every (category, supplier) pair whose orders
\* have a positive quantity in total has one metrics row, whose total_quantity
\* and total_spend_ngn are the sums over the pair's orders, each order counted
\* once; a pair whose orders have a total quantity of zero has no row.
C25_EachOrderCountedOnce ==
    call.fn = "read_sql" =>
        \A cat \in { Categories[k] : k \in 1..Len(Categories) }, s \in 1..2 :
            LET orders == SelectSeq(call.purchase_orders,
                                    LAMBDA po : po.category = cat /\ po.supplier_id = s)
                quantity == IntSum([i \in 1..Len(orders) |-> orders[i].quantity])
                amount == IntSum([i \in 1..Len(orders) |-> orders[i].total_amount_ngn])
                rows == SelectSeq(supplier_metrics,
                                  LAMBDA row : row.category = cat /\ row.supplier_id = s)
            IN  IF quantity > 0
                THEN /\ Len(rows) = 1
                     /\ rows[1].total_quantity = quantity
                     /\ rows[1].total_spend_ngn = amount
                ELSE rows = <<>>

\* C26: in every result, each draw of the three savings levers is >= 0, each
\* total-spend draw is >= half the total_spend estimate, each total-savings
\* draw and each reported total-savings statistic is >= 0, and each
\* savings-percentage draw is <= 200 x total-savings draw / total_spend.
C26_DrawsClipped ==
    IsMC /\ raised = "none" =>
        LET total_spend == R(Get(call.base_insights, "total_spend", 0))
            total_savings_draws == TotalSavingsDraws(draws)
            savings_pct_draws == SavingsPctDraws(draws)
        IN  /\ \A i \in 1..call.num_simulations :
                  /\ RLe(R(0), draws.price[i])
                  /\ RLe(R(0), draws.perf[i])
                  /\ RLe(R(0), draws.cons[i])
                  /\ RLe(RDiv(total_spend, R(2)), draws.spend[i])
                  /\ RLe(R(0), total_savings_draws[i])
                  /\ RLe(savings_pct_draws[i],
                         RDiv(RMul(R(200), total_savings_draws[i]), total_spend))
            /\ RLe(R(0), summary.total_savings_mean_ngn)
            /\ RLe(R(0), summary.total_savings_median_ngn)
            /\ RLe(R(0), summary.total_savings_std_ngn.sqrt_of)
            /\ RLe(R(0), summary.total_savings_p05_ngn)
            /\ RLe(R(0), summary.total_savings_p25_ngn)
            /\ RLe(R(0), summary.total_savings_p75_ngn)
            /\ RLe(R(0), summary.total_savings_p95_ngn)

\* C27: every output row of both optimizers has projected_quantity = share x
\* the historical category quantity and projected_spend_ngn =
\* projected_quantity x avg_unit_cost_ngn; the projected quantities of every
\* category sum to its historical quantity; constrained_spend_ngn is the sum
\* of projected_spend_ngn over all output rows.
C27_ProjectionsAddUp ==
    IsOpt \/ (IsCon /\ raised = "none") =>
        LET category_quantity(cat) == CategoryHistory(supplier_metrics, cat).category_quantity
            share(r) == IF IsOpt THEN r.recommended_share ELSE r.constrained_share
        IN  /\ \A i \in 1..Len(recommendations_df) :
                  LET r == recommendations_df[i]
                  IN  /\ r.projected_quantity = RMul(share(r), R(category_quantity(r.category)))
                      /\ r.projected_spend_ngn =
                             RMul(r.projected_quantity, R(r.avg_unit_cost_ngn))
            /\ \A cat \in RecCategories :
                  SeqSum([i \in 1..Len(RecsOf(cat)) |-> RecsOf(cat)[i].projected_quantity])
                      = R(category_quantity(cat))
            /\ IsCon /\ recommendations_df # <<>> =>
                  summary.constrained_spend_ngn =
                      SeqSum([i \in 1..Len(recommendations_df) |->
                                 recommendations_df[i].projected_spend_ngn])

\* C28: every call of run_sensitivity_analysis returns, without raising, one
\* row for every scenario of scenario_factors, in order of non-decreasing
\* total_savings_ngn; for the empty mapping it returns the empty table.
C28_OneRowPerScenarioSorted ==
    IsSens =>
        /\ raised = "none"
        /\ Len(recommendations_df) = Len(call.scenario_factors)
        /\ \A k \in 1..Len(call.scenario_factors) :
              \E i \in 1..Len(recommendations_df) :
                  recommendations_df[i].scenario = call.scenario_factors[k].scenario
        /\ \A i, j \in 1..Len(recommendations_df) :
              i < j => RLe(recommendations_df[i].total_savings_ngn,
                           recommendations_df[j].total_savings_ngn)


\* C29: whenever the number of suppliers selected for a category times
\* min_supplier_share is at most 1, every recommended_share returned for that
\* category is at least min_supplier_share.
C29_SharesAtLeastFloor ==
    IsOpt =>
        \A k \in 1..Len(GroupKeys(supplier_metrics)) :
            LET recs == RecsOf(GroupKeys(supplier_metrics)[k])
            IN  RLe(RMul(R(Len(recs)), call.min_supplier_share), R(1)) =>
                    \A i \in 1..Len(recs) :
                        RLe(call.min_supplier_share, recs[i].recommended_share)


\* C30: in every category the first recommended row, the primary supplier, is
\* a cheapest of the suppliers that pass the eligibility gates, and a cheapest
\* of all the category's suppliers when none passes, whatever the price
\* percentile, the dual-sourcing threshold and the share cap are.
C30_PrimaryIsCheapestEligible ==
    IsCon /\ raised = "none" =>
        \A cat \in RecCategories :
            LET c == call.constraints
                group == GroupOf(supplier_metrics, cat)
                passing == SelectSeq(group,
                    LAMBDA row :
                        /\ RLe(c.min_on_time_delivery_pct, row.on_time_delivery_pct)
                        /\ row.quality_incident_count <= c.max_quality_incidents_per_order
                        /\ risk_level_order(row.risk_level)
                               <= risk_level_order(c.max_risk_level))
            IN  IsCheapestOf(RecsOf(cat)[1], IF passing = <<>> THEN group ELSE passing)

\* C30 witness: in one category the price filter removed an eligible supplier
\* that costs more than the primary; in another category no supplier passes
\* the gates and the primary is recommended all the same.
C30_Witness ==
    /\ IsCon
    /\ raised = "none"
    /\ \E cat \in RecCategories :
          /\ Len(QualifiedOf(cat)) < Len(GatePassing(cat))
          /\ \E i \in 1..Len(GatePassing(cat)) :
                RecsOf(cat)[1].avg_unit_cost_ngn < GatePassing(cat)[i].avg_unit_cost_ngn
    /\ \E cat \in RecCategories : GatePassing(cat) = <<>> /\ Len(RecsOf(cat)) = 1
====
